---- MODULE Spec2Model ----
(***************************************************************************)
(* The archive-cracking core of the hackersmind iterations:                *)
(*   iteration1.py  BasicPasswordCracker   (dictionary_attack)             *)
(*   iteration2.py  MultiLayerZipCracker   (try_passwords, the layer       *)
(*                  traversal crack_multi_layer_zip and its generators)    *)
(* Strings are sequences of one-character strings, so that upper(),        *)
(* capitalize(), slicing and concatenation are computed as Python does.    *)
(* The zipfile codec and the filesystem are the environment: an archive is *)
(* a record of its entries, a directory is the set of files in it.         *)
(***************************************************************************)
EXTENDS Integers, Sequences, FiniteSets, TLC

\* Bounds of the model.
MaxDepth == 2
MaxCalls == 2
MaxLen == 3

MaxDigits == 2

----------------------------------------------------------------------------
\* String literals of the source.

common_passwords ==
    << <<"p","a","s","s","w","o","r","d">>, <<"1","2","3","4","5","6">>,
       <<"p","a","s","s","w","o","r","d","1","2","3">>, <<"a","d","m","i","n">>,
       <<"l","e","t","m","e","i","n">>, <<"w","e","l","c","o","m","e">>,
       <<"m","o","n","k","e","y">>, <<"1","2","3","4","5","6","7","8","9","0">>,
       <<"q","w","e","r","t","y">>, <<"a","b","c","1","2","3">>,
       <<"P","a","s","s","w","o","r","d","1">>, <<"w","e","l","c","o","m","e","1","2","3">>,
       <<"a","d","m","i","n","1","2","3">>, <<"r","o","o","t">>,
       <<"t","o","o","r">>, <<"g","u","e","s","t">>,
       <<"t","e","s","t">>, <<"d","e","m","o">>,
       <<"u","s","e","r">>, <<"l","o","g","i","n">> >>

simple_static ==
    << <<"s","t","a","r","t">>, <<"s","t","a","r","t","1","2","3">>,
       <<"b","e","g","i","n">>, <<"b","e","g","i","n","1","2","3">>,
       <<"l","a","y","e","r","1">>, <<"p","a","s","s","w","o","r","d">>,
       <<"1","2","3","4","5","6">>, <<"w","e","l","c","o","m","e">>,
       <<"h","e","l","l","o">>, <<"f","i","r","s","t">> >>

simple_bases ==
    << <<"s","t","a","r","t">>, <<"b","e","g","i","n">>, <<"f","i","r","s","t">> >>

simple_nums ==
    << <<"1">>, <<"1","2">>, <<"1","2","3">>, <<"2","0","2","4">>, <<"2","0","2","3">> >>

scientists ==
    << <<<<"a","l","b","e","r","t">>, <<"1","9","2","1">>>>,
       <<<<"e","i","n","s","t","e","i","n">>, <<"1","9","2","1">>>>,
       <<<<"a","l","b","e","r","t","1","9","2","1">>, <<>>>>,
       <<<<"n","e","w","t","o","n">>, <<"1","6","8","7">>>>,
       <<<<"d","a","r","w","i","n">>, <<"1","8","5","9">>>>,
       <<<<"c","u","r","i","e">>, <<"1","9","0","3">>>>,
       <<<<"t","e","s","l","a">>, <<"1","8","5","6">>>>,
       <<<<"g","a","l","i","l","e","o">>, <<"1","5","6","4">>>> >>

cities ==
    << <<"p","a","r","i","s">>, <<"l","o","n","d","o","n">>, <<"b","e","r","l","i","n">>,
       <<"m","a","d","r","i","d">>, <<"r","o","m","e">> >>

elements ==
    << <<"a","u">>, <<"a","g">>, <<"f","e">>, <<"c","u">>, <<"p","b">>, <<"s","n">> >>

numbers ==
    << <<"4","9">>, <<"6","4">>, <<"3","6">>, <<"2","5">>, <<"1","6">> >>

symbols ==
    << <<"!">>, <<"@">>, <<"#">>, <<"$">>, <<"%">> >>

pw_start123 == <<"s","t","a","r","t","1","2","3">>

pw_albert1921 == <<"a","l","b","e","r","t","1","9","2","1">>

pw_parisau49 == <<"p","a","r","i","s","a","u","4","9","!">>

pw_correct == <<"c","o","r","r","e","c","t">>

pw_wrong1 == <<"w","r","o","n","g","1">>

pw_wrong2 == <<"w","r","o","n","g","2">>

pw_wrong3 == <<"w","r","o","n","g","3">>

LowerLetters == <<"a","b","c","d","e","f","g","h","i","j","k","l","m","n","o","p","q","r","s","t","u","v","w","x","y","z">>

UpperLetters == <<"A","B","C","D","E","F","G","H","I","J","K","L","M","N","O","P","Q","R","S","T","U","V","W","X","Y","Z">>

----------------------------------------------------------------------------
\* Python string operations on these strings.

Pos(c, letters) == IF \E k \in 1..Len(letters) : letters[k] = c
                   THEN CHOOSE k \in 1..Len(letters) : letters[k] = c
                   ELSE 0

UpperChar(c) == IF Pos(c, LowerLetters) > 0 THEN UpperLetters[Pos(c, LowerLetters)] ELSE c

LowerChar(c) == IF Pos(c, UpperLetters) > 0 THEN LowerLetters[Pos(c, UpperLetters)] ELSE c

RECURSIVE Concat(_)
Concat(ss) ==
    IF ss = <<>> THEN <<>>
    ELSE IF Len(ss) = 1 THEN ss[1]
    ELSE LET half == Len(ss) \div 2
         IN Concat(SubSeq(ss, 1, half)) \o Concat(SubSeq(ss, half + 1, Len(ss)))

\* The upper case of a character is a string: the sharp s has no upper-case
\* letter of its own and becomes "SS" (and "Ss" as a title).
SharpS == "ß"

UpperOf(c) == IF c = SharpS THEN <<"S", "S">> ELSE <<UpperChar(c)>>

TitleOf(c) == IF c = SharpS THEN <<"S", "s">> ELSE <<UpperChar(c)>>

\* s.upper()
Upper(s) == Concat([k \in 1..Len(s) |-> UpperOf(s[k])])

\* s.lower()
Lower(s) == [k \in 1..Len(s) |-> LowerChar(s[k])]

\* s.capitalize()
Capitalize(s) == IF s = <<>> THEN <<>> ELSE TitleOf(Head(s)) \o Lower(Tail(s))

\* s[a:b] with 0 <= a, as Python slices: clipped to the string.
Slice(s, a, b) == SubSeq(s, a + 1, IF b < Len(s) THEN b ELSE Len(s))

\* s[-n:]
Last(s, n) == IF Len(s) <= n THEN s ELSE SubSeq(s, Len(s) - n + 1, Len(s))

Occurs(needle, hay, k) ==
    /\ k + Len(needle) <= Len(hay)
    /\ SubSeq(hay, k + 1, k + Len(needle)) = needle

\* needle in hay
Contains(hay, needle) == \E k \in 0..Len(hay) : Occurs(needle, hay, k)

\* hay.find(needle): the lowest 0-based index, -1 when absent.
Find(hay, needle) ==
    IF Contains(hay, needle)
    THEN CHOOSE k \in 0..Len(hay) :
            /\ Occurs(needle, hay, k)
            /\ \A j \in 0..(k - 1) : ~Occurs(needle, hay, j)
    ELSE -1

\* s.replace(old, new) for a one-character old: the occurrences from the left
RECURSIVE Replace(_, _, _)
Replace(s, old, new) ==
    IF s = <<>> THEN <<>>
    ELSE (IF Head(s) = old THEN <<new>> ELSE <<Head(s)>>) \o Replace(Tail(s), old, new)

\* s[::-1]
Reverse(s) == [k \in 1..Len(s) |-> s[Len(s) - k + 1]]

----------------------------------------------------------------------------
\* The archives the environment can put on disk.
\* An entry: its name, whether it is encrypted and with which password, a
\* fault of its stored data ("crc": the data fails its CRC check, which the
\* codec reports as BadZipFile; "io": reading it raises another exception),
\* and its content: a text, or (inner) the archive a .zip entry holds.

HINT == <<"H","I","N","T">>

HintMax == 500

Progress == 50

TextWithHint == <<"o","k"," ","H","i","n","t",":"," ","x">>

TextPlain == <<"d","o","n","e">>

FileName(stem, suffix) == [stem |-> stem, suffix |-> suffix]

TxtEntry(stem, enc, pwd, fault, text) ==
    [name |-> FileName(stem, ".txt"), enc |-> enc, pwd |-> pwd, fault |-> fault,
     text |-> text, inner |-> <<>>]

ZipEntry(stem, arch) ==
    [name |-> FileName(stem, ".zip"), enc |-> FALSE, pwd |-> <<>>, fault |-> "none",
     text |-> <<>>, inner |-> <<arch>>]

NotAnArchive == [valid |-> FALSE, entries |-> <<>>]

Archive(entries) == [valid |-> TRUE, entries |-> entries]

\* The passwords of the multi-layer challenge, by layer.
ChallengePwd(l) == IF l = 1 THEN pw_start123 ELSE IF l = 2 THEN pw_albert1921 ELSE pw_parisau49

LayerPwds(l) == {ChallengePwd(l), pw_correct}

LeafLayouts(l) ==
    { <<TxtEntry("readme", FALSE, <<>>, "none", TextPlain)>>,
      <<TxtEntry("readme", FALSE, <<>>, "none", TextPlain),
        TxtEntry("secret", TRUE, ChallengePwd(l), "none", TextWithHint)>>,
      <<TxtEntry("broken", TRUE, ChallengePwd(l), "crc", TextPlain)>>,
      <<TxtEntry("unread", TRUE, ChallengePwd(l), "io", TextPlain)>> }
    \cup {<<TxtEntry("victory", TRUE, p, "none", TextWithHint)>> : p \in LayerPwds(l)}

NestLayouts(l, inners) ==
    UNION {{ <<TxtEntry("welcome", TRUE, ChallengePwd(l), "none", TextWithHint),
               ZipEntry("deeper", a)>>,
             <<ZipEntry("deeper", a),
               TxtEntry("welcome", TRUE, ChallengePwd(l), "none", TextWithHint)>> }
           : a \in inners}

RECURSIVE ArchivesAt(_, _)
ArchivesAt(l, d) ==
    {NotAnArchive}
    \cup {Archive(es) : es \in LeafLayouts(l)}
    \cup IF d > 1 THEN {Archive(es) : es \in NestLayouts(l, ArchivesAt(l + 1, d - 1))} ELSE {}

\* The 3-layer challenge of create_multi_layer_zip, around an innermost archive.
ChallengeLayer3 == Archive(<<TxtEntry("victory", TRUE, pw_parisau49, "none", TextWithHint)>>)

ChallengeLayer2(innermost) ==
    Archive(<<TxtEntry("hint2", TRUE, pw_albert1921, "none", TextWithHint),
              ZipEntry("next_challenge", innermost)>>)

ChallengeLayer1(innermost) ==
    Archive(<<TxtEntry("welcome", TRUE, pw_start123, "none", TextWithHint),
              ZipEntry("deeper", ChallengeLayer2(innermost))>>)

Challenges == {ChallengeLayer1(a) : a \in ArchivesAt(3, 1)}

NestedSamples == {Archive(es) : es \in NestLayouts(1, {ChallengeLayer3})}

\* Archives with one entry, encrypted with a numeric password.
NumericPwds == {<<"0">>, <<"7">>, <<"0", "0">>, <<"4", "2">>, <<"9", "9">>, <<"0", "0", "7">>}

NumericArchives ==
    {Archive(<<TxtEntry("secret", TRUE, p, "none", TextPlain)>>) : p \in NumericPwds}

\* The base words of pattern_based_attack, and archives whose password is a
\* variation of one of them.
BaseWords == {<<>>, <<"a", "d", "m", "i", "n">>, <<"H", "e", "l", "l", "o", "!">>}

PatternPwds == {<<"n", "i", "m", "d", "a">>, <<"H", "e", "l", "l", "0", "!">>}

PatternArchives ==
    {Archive(<<TxtEntry("secret", TRUE, p, "none", TextPlain)>>) : p \in PatternPwds}

\* A layer that holds two archives.
TwoArchives ==
    Archive(<<TxtEntry("welcome", TRUE, pw_start123, "none", TextWithHint),
              ZipEntry("beta", NotAnArchive),
              ZipEntry("alpha", Archive(<<TxtEntry("readme", FALSE, <<>>, "none", TextPlain)>>))>>)

----------------------------------------------------------------------------
\* The archive codec: ZipFile.extractall(path, pwd).
\* Entries are extracted in order.  An encrypted entry whose password is not
\* pwd (or with no password given) raises RuntimeError before anything of it
\* is written; a faulty entry raises after its target file was created.
\* What was extracted before stays on disk.

\* (mutant) the password is compared on entries that are not encrypted too
RejectsUnencrypted(e, pwd) == pwd = <<>> \/ pwd # e.pwd

Rejects(e, pwd) == e.enc /\ (pwd = <<>> \/ pwd # e.pwd)

Fails(e, pwd) == Rejects(e, pwd) \/ e.fault # "none"

FailIdx(entries, pwd) ==
    IF \E k \in 1..Len(entries) : Fails(entries[k], pwd)
    THEN CHOOSE k \in 1..Len(entries) :
            /\ Fails(entries[k], pwd)
            /\ \A j \in 1..(k - 1) : ~Fails(entries[j], pwd)
    ELSE 0

FileOf(e) == [name |-> e.name, text |-> e.text, inner |-> e.inner]

ExtractAll(arch, pwd) ==
    LET es == arch.entries
        k == FailIdx(es, pwd)
    IN IF k = 0
       THEN [outcome |-> "ok", written |-> {FileOf(es[j]) : j \in 1..Len(es)}]
       ELSE IF Rejects(es[k], pwd)
       THEN [outcome |-> "RuntimeError", written |-> {FileOf(es[j]) : j \in 1..(k - 1)}]
       ELSE [outcome |-> IF es[k].fault = "crc" THEN "BadZipFile" ELSE "OSError",
             written |-> {FileOf(es[j]) : j \in 1..k}]

\* Writing files into a directory replaces the files of the same name.
WriteFiles(dir, written) ==
    {f \in dir : \A w \in written : w.name # f.name} \cup written

\* The file system outside the extraction directories: one archive file.
RootPath == [dir |-> -1, name |-> FileName("root", ".zip")]

MissingPath == [dir |-> -1, name |-> FileName("missing", ".zip")]

----------------------------------------------------------------------------
\* Inputs of the callers.

Words == {pw_wrong1, pw_start123}

RECURSIVE ListsUpTo(_)
ListsUpTo(n) ==
    IF n = 0 THEN {<<>>}
    ELSE LET shorter == ListsUpTo(n - 1)
         IN shorter \cup {Append(l, w) : <<l, w>> \in {s \in shorter : Len(s) = n - 1} \X Words}

ExampleList == <<pw_wrong1, pw_wrong2, pw_correct, pw_wrong3>>

CandidateLists == ListsUpTo(MaxLen) \cup {ExampleList}

\* The wordlist argument of dictionary_attack: None, or a list.
NoWordlist == [given |-> FALSE, list |-> <<>>]

WordlistArgs == {NoWordlist} \cup {[given |-> TRUE, list |-> l] : l \in CandidateLists}

Paths == {RootPath, MissingPath}

\* The texts given to the hint extractors, and the directories scanned.
SharpSText == <<SharpS>> \o <<" ","h","i","n","t",":"," ","x">>

TwoHintsText == <<"h","i","n","t",":"," ","a"," ","H","I","N","T",":"," ","b">>

LongHintText == [k \in 1..(HintMax + 20) |-> IF k <= 4 THEN <<"h","i","n","t">>[k] ELSE " "]

NotTextToken == <<"w","r","o","n","g","p","a","s","s","w","o","r","d","t","o","k","e","n","1","2">>

BadPaddingToken == <<"a","b","c","d","e","f","g","h","i","j","k","l","m","n","o","p","q","r","s","t","u","=">>

KeyToken == <<"d","G","h","l","I","G","t","l","e","S","B","p","c","y","B","w","Y","X","J","p","c","w","=","=">>

KeyPayload == <<"t","h","e"," ","k","e","y"," ","i","s"," ","p","a","r","i","s">>

LayerToken == <<"b","G","9","v","a","y","B","h","d","C","B","s","Y","X","l","l","c","i","A","z">>

NotTextThenKey == NotTextToken \o <<" ">> \o KeyToken

BadPaddingThenLayer == BadPaddingToken \o <<" ">> \o LayerToken

ParisText == <<"m","e","e","t"," ","a","t"," ","4","8",".","8","5","6","6",","," ","2",".","3","5","2","2">>

TwoPairsText == <<"1",".","2","3","4","5","-","6",".","7","8","9","0"," ","4","8",".","9","9","9","9",",","2",".","0","0","0","1">>

ScanTexts ==
    {TextWithHint, TextPlain, SharpSText, TwoHintsText, LongHintText, NotTextThenKey,
     BadPaddingThenLayer, ParisText, TwoPairsText}

TxtFile(stem, text) == [name |-> FileName(stem, ".txt"), text |-> text, inner |-> <<>>]

ZipFile(stem, arch) == [name |-> FileName(stem, ".zip"), text |-> <<>>, inner |-> <<arch>>]

ScanDirs ==
    {{TxtFile("note", t)} : t \in ScanTexts}
    \cup {{TxtFile("welcome", TextWithHint), ZipFile("deeper", NotAnArchive)},
          {TxtFile("a", TwoHintsText), TxtFile("b", NotTextThenKey)}}

\* What a call returned: nothing yet, None, a password, or an exception.
NotReturned == [kind |-> "pending", password |-> <<>>, extract_dir |-> -1]

ReturnNone == [kind |-> "None", password |-> <<>>, extract_dir |-> -1]

ReturnPassword(p, d) == [kind |-> "password", password |-> p, extract_dir |-> d]

Raised == [kind |-> "raised", password |-> <<>>, extract_dir |-> -1]

\* An extractall call: the password passed and how the call ended.
NoTry == [password |-> <<>>, outcome |-> "none"]

Line(msg, n, s) == [msg |-> msg, n |-> n, s |-> s]

\* No hint extractor was called directly yet.
NoScan == [fn |-> "none", text |-> <<>>, raised |-> FALSE, ret |-> <<>>]

----------------------------------------------------------------------------
VARIABLES
    script,            \* what runs: "iteration1", "iteration2", or a method called on its own
    zip_file,          \* the archive stored at RootPath
    calls,             \* calls made so far on the cracker object (the clock)
    stdout,            \* what the current call has printed
    attempts,          \* BasicPasswordCracker.attempts
    start_time,        \* BasicPasswordCracker.start_time (0: None)
    cwd,               \* the files in the working directory
    da_pc,             \* dictionary_attack: "idle" or "loop"
    da_arg,            \* dictionary_attack: the wordlist argument as passed
    wordlist,          \* dictionary_attack: the list iterated
    da_i,              \* dictionary_attack: candidates taken from the list
    da_ret,            \* dictionary_attack: what the last call returned
    da_try,            \* dictionary_attack: its latest extractall call
    pattern_call,      \* pattern_based_attack: its arguments and its patterns list (none: a direct call)
    bf_pc,             \* brute_force_numeric: "idle" or "loop"
    max_length,        \* brute_force_numeric: the max_length argument
    length,            \* brute_force_numeric: the length of the outer loop (0: before the loop)
    bf_combo,          \* brute_force_numeric: combinations taken from product(digits, repeat=length)
    bf_ret,            \* brute_force_numeric: what the last call returned
    bf_try,            \* brute_force_numeric: its latest extractall call
    layer_count,       \* MultiLayerZipCracker.layer_count
    extracted_hints,   \* MultiLayerZipCracker.extracted_hints
    password_history,  \* MultiLayerZipCracker.password_history
    temp_extract,      \* the files in temp_extract_0, temp_extract_1, ...
    pc,                \* iteration2: "idle", "while", "try", "cracked", "summary"
    current_zip,       \* crack_multi_layer_zip: the path of the layer's archive
    layer,             \* crack_multi_layer_zip: the layer index
    hint_text,         \* intelligent_crack_layer: the hint it was given
    session_start,     \* the cracker's counters when the traversal was called, the directories its layers used
                       \* and the number of extractall calls it made
    caller,            \* who called try_passwords: "traversal" or "direct"
    zip_ref,           \* try_passwords: the archive opened
    given,             \* try_passwords: the list passed by a direct caller
    layer_num,         \* intelligent_crack_layer: the layer whose strategy is used (0: none)
    tp_i,              \* try_passwords: candidates taken from the list
    tp_ret,            \* try_passwords: what the last call returned
    tp_try,            \* try_passwords: its latest extractall call
    scan               \* the latest direct call of a hint extractor: which, its text, its end

world == <<script, zip_file>>

dictionary == <<da_pc, da_arg, wordlist, da_i, da_ret, da_try, pattern_call>>

brute == <<bf_pc, max_length, length, bf_combo, bf_ret, bf_try>>

basic == <<attempts, start_time, cwd, dictionary, brute>>

cracker == <<layer_count, extracted_hints, password_history>>

traversal == <<current_zip, layer, hint_text, session_start>>

unlocker == <<caller, zip_ref, given, layer_num, tp_i, tp_ret, tp_try>>

multi == <<cracker, temp_extract, pc, traversal, unlocker>>

vars == <<world, calls, stdout, basic, multi, scan>>

----------------------------------------------------------------------------
\* iteration1.py: BasicPasswordCracker

Exists(path) == path = RootPath

\* (mutant) the loop starts at the second element
NextPasswordSkipping(list, taken) ==
    list[IF taken + 2 <= Len(list) THEN taken + 2 ELSE taken + 1]

\* lines 48 and 227: the element the for loop takes after `taken` elements
NextPassword(list, taken) == list[taken + 1]

\* (mutant) the inner handler catches RuntimeError only
ContinuesOnRuntimeErrorOnly(outcome) == outcome = "RuntimeError"

\* (mutant) the inner handler catches BadZipFile only
ContinuesOnBadZipFileOnly(outcome) == outcome = "BadZipFile"

\* lines 56 and 241: except (RuntimeError, zipfile.BadZipFile): ... continue
Continues(outcome) == outcome \in {"RuntimeError", "BadZipFile"}

\* lines 34-46: the checks and resets before the loop, and opening the archive
EnterDictionaryAttack(zip_file_path, wl) ==
    /\ da_pc = "idle"
    /\ calls < MaxCalls
    /\ calls' = calls + 1
    /\ da_try' = NoTry
    /\ da_arg' = wl
    /\ IF ~Exists(zip_file_path)
       THEN /\ stdout' = <<Line("File not found", 0, <<>>)>>
            /\ da_ret' = ReturnNone
            /\ UNCHANGED <<attempts, start_time, wordlist, da_i, da_pc>>
       ELSE /\ wordlist' = IF wl.given /\ wl.list # <<>> THEN wl.list ELSE common_passwords
            /\ start_time' = calls + 1
            /\ attempts' = 0
            /\ da_i' = 0
            /\ IF zip_file.valid
               THEN /\ stdout' = <<Line("ZIP file loaded", Len(zip_file.entries), <<>>)>>
                    /\ da_pc' = "loop"
                    /\ da_ret' = NotReturned
               ELSE /\ stdout' = <<Line("Not a valid ZIP file", 0, <<>>)>>
                    /\ da_pc' = "idle"
                    /\ da_ret' = ReturnNone
    /\ UNCHANGED <<world, scan, brute, cwd, multi>>

\* a direct call of dictionary_attack(zip_file_path, wordlist)
NoPattern == [called |-> FALSE, base_word |-> <<>>, variations |-> FALSE, patterns |-> <<>>]

DictionaryAttack(zip_file_path, wl) ==
    /\ script = "iteration1"
    /\ pattern_call' = NoPattern
    /\ EnterDictionaryAttack(zip_file_path, wl)

\* (mutant) the reverse of the base word is left out
PatternsWithoutReverse(base_word, variations) ==
    <<base_word>> \o
    (IF variations
     THEN <<Upper(base_word), Lower(base_word), Capitalize(base_word),
            base_word \o <<"1">>, base_word \o <<"1", "2", "3">>,
            base_word \o <<"2", "0", "2", "3">>, base_word \o <<"2", "0", "2", "4">>,
            <<"1">> \o base_word, base_word \o <<"!">>, base_word \o <<"@">>,
            Replace(base_word, "a", "@"), Replace(base_word, "o", "0"),
            Replace(base_word, "e", "3"), Replace(base_word, "i", "1")>>
     ELSE <<>>)

\* lines 110-130: the patterns list
Patterns(base_word, variations) ==
    <<base_word>> \o
    (IF variations
     THEN <<Upper(base_word), Lower(base_word), Capitalize(base_word),
            base_word \o <<"1">>, base_word \o <<"1", "2", "3">>,
            base_word \o <<"2", "0", "2", "3">>, base_word \o <<"2", "0", "2", "4">>,
            <<"1">> \o base_word, base_word \o <<"!">>, base_word \o <<"@">>,
            Replace(base_word, "a", "@"), Replace(base_word, "o", "0"),
            Replace(base_word, "e", "3"), Replace(base_word, "i", "1"),
            Reverse(base_word)>>
     ELSE <<>>)

\* lines 106-132: pattern_based_attack(zip_file_path, base_word, variations)
PatternBasedAttack(zip_file_path, base_word, variations) ==
    /\ script = "pattern_based_attack"
    /\ LET patterns == Patterns(base_word, variations)
       IN /\ pattern_call' = [called |-> TRUE, base_word |-> base_word,
                              variations |-> variations, patterns |-> patterns]
          /\ EnterDictionaryAttack(zip_file_path, [given |-> TRUE, list |-> patterns])

\* lines 48-58: one candidate
DictionaryAttackStep ==
    /\ da_pc = "loop"
    /\ da_i < Len(wordlist)
    /\ LET password == NextPassword(wordlist, da_i)
           r == ExtractAll(zip_file, password)
       IN /\ da_i' = da_i + 1
          /\ attempts' = attempts + 1
          /\ cwd' = WriteFiles(cwd, r.written)
          /\ da_try' = [password |-> password, outcome |-> r.outcome]
          /\ IF r.outcome = "ok"
             THEN /\ stdout' = stdout \o <<Line("SUCCESS", attempts + 1, password)>>
                  /\ da_ret' = ReturnPassword(password, -1)
                  /\ da_pc' = "idle"
             ELSE IF Continues(r.outcome)
             THEN /\ stdout' = stdout \o <<Line("Failed", attempts + 1, password)>>
                  /\ UNCHANGED <<da_ret, da_pc>>
             ELSE IF r.outcome = "BadZipFile"
             THEN /\ stdout' = stdout \o <<Line("Not a valid ZIP file", 0, <<>>)>>
                  /\ da_ret' = ReturnNone
                  /\ da_pc' = "idle"
             ELSE /\ da_ret' = Raised
                  /\ da_pc' = "idle"
                  /\ UNCHANGED stdout
    /\ UNCHANGED <<world, scan, brute, calls, start_time, da_arg, wordlist, pattern_call, multi>>

\* lines 60-61: the list is used up
DictionaryAttackExhausted ==
    /\ da_pc = "loop"
    /\ da_i = Len(wordlist)
    /\ stdout' = stdout \o <<Line("Dictionary attack failed", attempts, <<>>)>>
    /\ da_ret' = ReturnNone
    /\ da_pc' = "idle"
    /\ UNCHANGED <<world, scan, brute, calls, attempts, start_time, cwd, da_arg, wordlist, da_i, da_try,
                   pattern_call, multi>>

----------------------------------------------------------------------------
\* iteration1.py: brute_force_numeric

\* string.digits
digits == <<"0", "1", "2", "3", "4", "5", "6", "7", "8", "9">>

IsDigit(c) == \E d \in 1..10 : digits[d] = c

DigitValue(c) == (CHOOSE d \in 1..10 : digits[d] = c) - 1

\* the number a string of digits writes
RECURSIVE Value(_)
Value(s) == IF s = <<>> THEN 0 ELSE 10 * Value(SubSeq(s, 1, Len(s) - 1)) + DigitValue(s[Len(s)])

RECURSIVE Pow10(_)
Pow10(n) == IF n = 0 THEN 1 ELSE 10 * Pow10(n - 1)

\* (mutant) the last position varies slowest
ProductLastSlowest(len, k) ==
    [j \in 1..len |-> <<digits[((k \div Pow10(j - 1)) % 10) + 1]>>]

\* line 84: the (k+1)-th tuple of itertools.product(string.digits, repeat=len):
\* the first position varies slowest, the last fastest
Product(len, k) ==
    [j \in 1..len |-> <<digits[((k \div Pow10(len - j)) % 10) + 1]>>]

\* line 85: ''.join(combo)
Join(combo) == Concat(combo)

\* (mutant) the counter and the clock are reset before the path is looked at
BruteForceNumericResetsFirst(zip_file_path, n) ==
    /\ script = "brute_force_numeric"
    /\ bf_pc = "idle"
    /\ calls < MaxCalls
    /\ calls' = calls + 1
    /\ max_length' = n
    /\ bf_try' = NoTry
    /\ start_time' = calls + 1
    /\ attempts' = 0
    /\ IF ~Exists(zip_file_path)
       THEN /\ stdout' = <<Line("File not found", 0, <<>>)>>
            /\ bf_ret' = ReturnNone
            /\ UNCHANGED <<length, bf_combo, bf_pc>>
       ELSE /\ length' = 0
            /\ bf_combo' = 1
            /\ IF zip_file.valid
               THEN /\ stdout' = <<>>
                    /\ bf_pc' = "loop"
                    /\ bf_ret' = NotReturned
               ELSE /\ stdout' = <<Line("Not a valid ZIP file", 0, <<>>)>>
                    /\ bf_pc' = "idle"
                    /\ bf_ret' = ReturnNone
    /\ UNCHANGED <<world, scan, cwd, dictionary, multi>>

\* lines 69-79: the checks and resets before the loops, and opening the archive
BruteForceNumeric(zip_file_path, n) ==
    /\ script = "brute_force_numeric"
    /\ bf_pc = "idle"
    /\ calls < MaxCalls
    /\ calls' = calls + 1
    /\ max_length' = n
    /\ bf_try' = NoTry
    /\ IF ~Exists(zip_file_path)
       THEN /\ stdout' = <<Line("File not found", 0, <<>>)>>
            /\ bf_ret' = ReturnNone
            /\ UNCHANGED <<attempts, start_time, length, bf_combo, bf_pc>>
       ELSE /\ start_time' = calls + 1
            /\ attempts' = 0
            /\ length' = 0
            /\ bf_combo' = 1
            /\ IF zip_file.valid
               THEN /\ stdout' = <<>>
                    /\ bf_pc' = "loop"
                    /\ bf_ret' = NotReturned
               ELSE /\ stdout' = <<Line("Not a valid ZIP file", 0, <<>>)>>
                    /\ bf_pc' = "idle"
                    /\ bf_ret' = ReturnNone
    /\ UNCHANGED <<world, scan, cwd, dictionary, multi>>

\* lines 81-82: the next length of the outer loop
BruteForceNextLength ==
    /\ bf_pc = "loop"
    /\ bf_combo = Pow10(length)
    /\ length < max_length
    /\ length' = length + 1
    /\ bf_combo' = 0
    /\ stdout' = stdout \o <<Line("Trying combinations", length + 1, <<>>)>>
    /\ UNCHANGED <<world, scan, calls, attempts, start_time, cwd, dictionary,
                   bf_pc, max_length, bf_ret, bf_try, multi>>

\* lines 84-97: one combination
BruteForceStep ==
    /\ bf_pc = "loop"
    /\ bf_combo < Pow10(length)
    /\ LET password == Join(Product(length, bf_combo))
           r == ExtractAll(zip_file, password)
       IN /\ bf_combo' = bf_combo + 1
          /\ attempts' = attempts + 1
          /\ cwd' = WriteFiles(cwd, r.written)
          /\ bf_try' = [password |-> password, outcome |-> r.outcome]
          /\ IF r.outcome = "ok"
             THEN /\ stdout' = stdout \o <<Line("SUCCESS", attempts + 1, password)>>
                  /\ bf_ret' = ReturnPassword(password, -1)
                  /\ bf_pc' = "idle"
             ELSE IF Continues(r.outcome)
             THEN /\ stdout' = IF (attempts + 1) % 100 = 0
                                THEN stdout \o <<Line("Tried", attempts + 1, <<>>)>>
                                ELSE stdout
                  /\ UNCHANGED <<bf_ret, bf_pc>>
             ELSE IF r.outcome = "BadZipFile"
             THEN /\ stdout' = stdout \o <<Line("Not a valid ZIP file", 0, <<>>)>>
                  /\ bf_ret' = ReturnNone
                  /\ bf_pc' = "idle"
             ELSE /\ bf_ret' = Raised
                  /\ bf_pc' = "idle"
                  /\ UNCHANGED stdout
    /\ UNCHANGED <<world, scan, calls, start_time, dictionary, max_length, length, multi>>

\* lines 99-100: every length is used up
BruteForceExhausted ==
    /\ bf_pc = "loop"
    /\ bf_combo = Pow10(length)
    /\ length >= max_length
    /\ stdout' = stdout \o <<Line("Brute force failed", attempts, <<>>)>>
    /\ bf_ret' = ReturnNone
    /\ bf_pc' = "idle"
    /\ UNCHANGED <<world, scan, calls, attempts, start_time, cwd, dictionary,
                   max_length, length, bf_combo, bf_try, multi>>

----------------------------------------------------------------------------
\* iteration2.py: decode_base64_hints

B64Alphabet == UpperLetters \o LowerLetters \o digits \o <<"+", "/">>

IsB64(c) == Pos(c, B64Alphabet) > 0

B64Value(c) == Pos(c, B64Alphabet) - 1

\* the character at a 1-based index, "" outside the text
At(text, i) == IF i >= 1 /\ i <= Len(text) THEN text[i] ELSE ""

\* the end of the run of base64 characters that starts at i
RunEnd(text, i) ==
    CHOOSE e \in i..Len(text) :
        /\ \A j \in i..e : IsB64(text[j])
        /\ ~IsB64(At(text, e + 1))

PadsAt(text, e) ==
    IF At(text, e + 1) = "=" THEN (IF At(text, e + 2) = "=" THEN 2 ELSE 1) ELSE 0

\* the lowest of a set of indices
Lowest(S) == CHOOSE k \in S : \A j \in S : k <= j

\* lines 122-123: re.findall(r'[A-Za-z0-9+/]{20,}={0,2}', text) from index i on:
\* leftmost matches, each as long as it can be, none overlapping
RECURSIVE Base64Matches(_, _)
TokenThenRest(text, s, e, p) == <<SubSeq(text, s, e + p)>> \o Base64Matches(text, e + p + 1)

\* the match whose base64 characters run from s to e
TokenEnding(text, s, e) == TokenThenRest(text, s, e, PadsAt(text, e))

TokenAt(text, s) == TokenEnding(text, s, RunEnd(text, s))

TokensFrom(text, starts) == IF starts = {} THEN <<>> ELSE TokenAt(text, Lowest(starts))

Base64Matches(text, i) ==
    TokensFrom(text, {k \in i..Len(text) :
                         /\ IsB64(text[k])
                         /\ k = i \/ ~IsB64(text[k - 1])
                         /\ RunEnd(text, k) - k + 1 >= 20})

\* the j-th byte of the group of four characters that follows offset o, each
\* character holding six bits
GroupByte(d, o, j) ==
    IF j = 1 THEN B64Value(d[o + 1]) * 4 + (B64Value(d[o + 2]) \div 16)
    ELSE IF j = 2 THEN (B64Value(d[o + 2]) % 16) * 16 + (B64Value(d[o + 3]) \div 4)
    ELSE (B64Value(d[o + 3]) % 4) * 64 + B64Value(d[o + 4])

\* the bytes n data characters hold: three for four characters, and one or
\* two for a last group of two or three
ByteCount(n) == (n \div 4) * 3 + (IF n % 4 >= 2 THEN (n % 4) - 1 ELSE 0)

\* the bytes of the data characters
B64Bytes(d) == [k \in 1..ByteCount(Len(d)) |-> GroupByte(d, 4 * ((k - 1) \div 3), ((k - 1) % 3) + 1)]

\* a lone last character, or a last group of q characters that is short and
\* not padded to four by its p pads
BadPadding(q, p) == q = 1 \/ (q # 0 /\ q + p < 4)

BytesOrError(match, d) ==
    IF BadPadding(Len(d) % 4, Len(match) - Len(d))
    THEN [exc |-> "binascii.Error", bytes |-> <<>>]
    ELSE [exc |-> "none", bytes |-> B64Bytes(d)]

\* base64.b64decode(match): its bytes, or binascii.Error
B64Decode(match) == BytesOrError(match, SelectSeq(match, IsB64))

\* the printable ASCII characters, from code 32 on (the grave accent, code 96,
\* written as the other unprintable characters are)
AsciiPrintable == <<" ","!","\"","#","$","%","&","'","(",")","*","+",",","-",".","/","0","1","2","3","4","5","6","7","8","9",":",";","<","=",">","?","@","A","B","C","D","E","F","G","H","I","J","K","L","M","N","O","P","Q","R","S","T","U","V","W","X","Y","Z","[","\\","]","^","_","#96","a","b","c","d","e","f","g","h","i","j","k","l","m","n","o","p","q","r","s","t","u","v","w","x","y","z","{","|","}","~">>

\* the character of a code point
Chr(cp) ==
    IF cp >= 32 /\ cp <= 126 THEN AsciiPrintable[cp - 31]
    ELSE IF cp = 10 THEN "\n"
    ELSE IF cp = 9 THEN "\t"
    ELSE "#" \o ToString(cp)

IsCont(b) == b >= 128 /\ b <= 191

\* the continuation bytes a first byte announces, -1 for a byte that cannot start a character
Continuations(b) ==
    IF b < 128 THEN 0
    ELSE IF b >= 194 /\ b <= 223 THEN 1
    ELSE IF b >= 224 /\ b <= 239 THEN 2
    ELSE IF b >= 240 /\ b <= 244 THEN 3
    ELSE -1

WellFormed(bs, b, more) ==
    /\ more >= 0
    /\ Len(bs) > more
    /\ \A j \in 2..(more + 1) : IsCont(bs[j])
    /\ b = 224 => bs[2] >= 160
    /\ b = 237 => bs[2] <= 159
    /\ b = 240 => bs[2] >= 144
    /\ b = 244 => bs[2] <= 143

CodePoint(bs, b, more) ==
    IF more = 0 THEN b
    ELSE IF more = 1 THEN (b - 192) * 64 + (bs[2] - 128)
    ELSE IF more = 2 THEN (b - 224) * 4096 + (bs[2] - 128) * 64 + (bs[3] - 128)
    ELSE (b - 240) * 262144 + (bs[2] - 128) * 4096 + (bs[3] - 128) * 64 + (bs[4] - 128)

\* a character before the decoded rest
Prepend(c, rest) ==
    IF rest.exc # "none" THEN rest ELSE [exc |-> "none", text |-> <<c>> \o rest.text]

\* bytes.decode('utf-8'): strict
RECURSIVE Utf8Decode(_)
DecodeChar(bs, b, more) ==
    IF ~WellFormed(bs, b, more) THEN [exc |-> "UnicodeDecodeError", text |-> <<>>]
    ELSE Prepend(Chr(CodePoint(bs, b, more)), Utf8Decode(SubSeq(bs, more + 2, Len(bs))))

Utf8Decode(bs) ==
    IF bs = <<>> THEN [exc |-> "none", text |-> <<>>]
    ELSE DecodeChar(bs, bs[1], Continuations(bs[1]))

TextOrError(r) == IF r.exc # "none" THEN [exc |-> r.exc, text |-> <<>>] ELSE Utf8Decode(r.bytes)

\* line 127: base64.b64decode(match).decode('utf-8')
DecodeOne(match) == TextOrError(B64Decode(match))

\* (mutant) except binascii.Error: continue
SwallowsBinasciiErrorOnly(exc) == exc = "binascii.Error"

\* lines 130-131: the bare except swallows every exception
Swallows(exc) == TRUE

\* lines 128-129: the two lines of a decoded match, before those of the later matches
DecodedThenRest(match, text, rest) ==
    [raised |-> rest.raised,
     lines |-> <<Line("Found encoded message", 0, match), Line("Decoded", 0, text)>> \o rest.lines]

\* lines 125-131: the loop over the matches
RECURSIVE DecodeMatches(_)
MatchThenLater(match, r, later) ==
    IF r.exc = "none" THEN DecodedThenRest(match, r.text, DecodeMatches(later))
    ELSE IF Swallows(r.exc) THEN DecodeMatches(later)
    ELSE [raised |-> TRUE, lines |-> <<>>]

DecodeMatches(matches) ==
    IF matches = <<>> THEN [raised |-> FALSE, lines |-> <<>>]
    ELSE MatchThenLater(Head(matches), DecodeOne(Head(matches)), Tail(matches))

AfterHeader(r) ==
    [raised |-> r.raised, lines |-> <<Line("Decoding Hidden Messages", 0, <<>>)>> \o r.lines]

\* lines 115-131: what the call prints, and whether it raises
decode_base64_hints(text) == AfterHeader(DecodeMatches(Base64Matches(text, 1)))

----------------------------------------------------------------------------
\* iteration2.py: extract_coordinates

\* \s
Whitespace == {" ", "\n", "\t"}

\* \d{1,3} at index s: the digits the greedy match takes (0: no match)
DigitRun(text, s) ==
    IF ~IsDigit(At(text, s)) THEN 0
    ELSE IF ~IsDigit(At(text, s + 1)) THEN 1
    ELSE IF ~IsDigit(At(text, s + 2)) THEN 2
    ELSE 3

\* \.\d{4} at index dot: the index of its last character, 0 for no match
FractionEnd(text, dot) ==
    IF At(text, dot) = "." /\ \A j \in 1..4 : IsDigit(At(text, dot + j)) THEN dot + 4 ELSE 0

\* \d{1,3}\.\d{4} at index s, r digits before the dot
UnsignedEnd(text, s, r) == IF r = 0 THEN 0 ELSE FractionEnd(text, s + r)

UnsignedAt(text, s) == UnsignedEnd(text, s, DigitRun(text, s))

\* -?\d{1,3}\.\d{4} at index i: the index of its last character, 0 for no match
NumberEnd(text, i) == UnsignedAt(text, IF At(text, i) = "-" THEN i + 1 ELSE i)

\* \s* from index i: the first index that holds no whitespace
RECURSIVE SkipSpace(_, _)
SkipSpace(text, i) == IF At(text, i) \in Whitespace THEN SkipSpace(text, i + 1) ELSE i

NoCoordinate == [end |-> 0, lat |-> <<>>, lon |-> <<>>]

\* the two groups: the first number ends at e1, the second runs from j to e2
Groups(text, i, e1, j, e2) ==
    IF e2 = 0 THEN NoCoordinate
    ELSE [end |-> e2, lat |-> SubSeq(text, i, e1), lon |-> SubSeq(text, j, e2)]

\* the second number, at index j
SecondNumber(text, i, e1, j) == Groups(text, i, e1, j, NumberEnd(text, j))

\* ,?\s* after the first number, which ends at e1
AfterFirst(text, i, e1) ==
    IF e1 = 0 THEN NoCoordinate
    ELSE SecondNumber(text, i, e1, SkipSpace(text, IF At(text, e1 + 1) = "," THEN e1 + 2 ELSE e1 + 1))

\* the whole pattern at index i
CoordinateAt(text, i) == AfterFirst(text, i, NumberEnd(text, i))

\* lines 140-141: re.findall(coord_pattern, text) from index i on: the
\* leftmost match, then the matches after its end
RECURSIVE CoordinateMatches(_, _)
PairThenRest(text, m) == <<m>> \o CoordinateMatches(text, m.end + 1)

MatchesFrom(text, starts) ==
    IF starts = {} THEN <<>> ELSE PairThenRest(text, CoordinateAt(text, Lowest(starts)))

CoordinateMatches(text, i) ==
    MatchesFrom(text, {k \in i..Len(text) : CoordinateAt(text, k).end # 0})

\* digits.digits as a number of ten-thousandths, dot the index of the point
FixedPoint(body, dot) ==
    Value(SubSeq(body, 1, dot - 1)) * 10000 + Value(SubSeq(body, dot + 1, Len(body)))

Magnitude(body) == FixedPoint(body, CHOOSE k \in 1..Len(body) : body[k] = ".")

\* line 146: float(num), in ten-thousandths
TenThousandths(num) == IF Head(num) = "-" THEN 0 - Magnitude(Tail(num)) ELSE Magnitude(num)

\* line 147: 48.0 < lat_f < 49.0 and 2.0 < lon_f < 3.0
InParis(lat, lon) ==
    /\ 480000 < TenThousandths(lat) /\ TenThousandths(lat) < 490000
    /\ 20000 < TenThousandths(lon) /\ TenThousandths(lon) < 30000

\* lines 143-148: what one pair prints
CoordinateLines(m) ==
    <<Line("Coordinates found", 0, m.lat \o <<",", " ">> \o m.lon)>>
    \o (IF InParis(m.lat, m.lon) THEN <<Line("Location hint", 0, <<>>)>> ELSE <<>>)

PairsLines(matches) == Concat([k \in 1..Len(matches) |-> CoordinateLines(matches[k])])

\* lines 133-148: what the call prints
extract_coordinates(text) ==
    <<Line("Extracting Coordinates", 0, <<>>)>> \o PairsLines(CoordinateMatches(text, 1))

----------------------------------------------------------------------------
\* iteration2.py: MultiLayerZipCracker, the candidate generators

\* lines 172-184
generate_simple_passwords ==
    simple_static \o
    [k \in 1..(Len(simple_bases) * Len(simple_nums)) |->
        simple_bases[((k - 1) \div Len(simple_nums)) + 1]
        \o simple_nums[((k - 1) % Len(simple_nums)) + 1]]

\* lines 186-203
KnowledgeVariants(name, year) ==
    <<name \o year, Capitalize(name) \o year, name \o Last(year, 2)>>

generate_knowledge_passwords ==
    Concat([k \in 1..Len(scientists) |-> KnowledgeVariants(scientists[k][1], scientists[k][2])])

\* (mutant) a fifth loop over the lower-case letters
generate_complex_passwords_with_letter ==
    [k \in 1..(Len(cities) * Len(elements) * Len(numbers) * Len(symbols) * Len(LowerLetters)) |->
        cities[((k - 1) \div (Len(elements) * Len(numbers) * Len(symbols) * Len(LowerLetters))) + 1]
        \o elements[(((k - 1) \div (Len(numbers) * Len(symbols) * Len(LowerLetters))) % Len(elements)) + 1]
        \o numbers[(((k - 1) \div (Len(symbols) * Len(LowerLetters))) % Len(numbers)) + 1]
        \o symbols[(((k - 1) \div Len(LowerLetters)) % Len(symbols)) + 1]
        \o <<LowerLetters[((k - 1) % Len(LowerLetters)) + 1]>>]

\* lines 205-219
generate_complex_passwords ==
    [k \in 1..(Len(cities) * Len(elements) * Len(numbers) * Len(symbols)) |->
        cities[((k - 1) \div (Len(elements) * Len(numbers) * Len(symbols))) + 1]
        \o elements[(((k - 1) \div (Len(numbers) * Len(symbols))) % Len(elements)) + 1]
        \o numbers[(((k - 1) \div Len(symbols)) % Len(numbers)) + 1]
        \o symbols[((k - 1) % Len(symbols)) + 1]]

\* (mutant) every layer after the first uses the knowledge strategy
LayerCandidatesWithoutComplex(n) ==
    IF n = 1 THEN generate_simple_passwords ELSE generate_knowledge_passwords

\* lines 160-168: the strategy of a layer
LayerCandidates(n) ==
    IF n = 1 THEN generate_simple_passwords
    ELSE IF n = 2 THEN generate_knowledge_passwords
    ELSE generate_complex_passwords

\* lines 154-170: the candidates intelligent_crack_layer hands to try_passwords;
\* hint_text is printed and searched for encoded messages, and the strategy is
\* chosen by layer_num alone
IntelligentCandidates(n, hint) == LayerCandidates(n)

----------------------------------------------------------------------------
\* iteration2.py: the file system as the cracker sees it

MaxDir == MaxCalls * MaxDepth

IsZip(f) == f.name.suffix = ".zip"

IsTxt(f) == f.name.suffix = ".txt"

FilesAt(path) ==
    IF path.dir = -1
    THEN IF path = RootPath THEN {[name |-> path.name, text |-> <<>>, inner |-> <<zip_file>>]} ELSE {}
    ELSE {f \in temp_extract[path.dir] : f.name = path.name}

PathExists(path) == FilesAt(path) # {}

\* zipfile.ZipFile(path, 'r'): the archive, or NotAnArchive for BadZipFile
OpenZip(path) ==
    LET f == CHOOSE g \in FilesAt(path) : TRUE
    IN IF f.inner = <<>> THEN NotAnArchive ELSE f.inner[1]

\* rglob("*"): the files of a directory in some order
Enumerations(dir) ==
    {o \in [1..Cardinality(dir) -> dir] : \A a, b \in 1..Cardinality(dir) : a # b => o[a] # o[b]}

\* lines 266-271: the hint section of a text
HintSection(content) ==
    LET upper == Upper(content)
        hint_start == Find(upper, HINT)
    IN IF Contains(upper, HINT)
       THEN <<Slice(content, hint_start, hint_start + HintMax)>>
       ELSE <<>>

\* lines 257-284: the hints appended while walking the files in this order;
\* the walk returns at the first .zip file
RECURSIVE HintsOfWalk(_)
HintsOfWalk(order) ==
    IF order = <<>> THEN <<>>
    ELSE IF IsTxt(Head(order)) THEN HintSection(Head(order).text) \o HintsOfWalk(Tail(order))
    ELSE IF IsZip(Head(order)) THEN <<>>
    ELSE HintsOfWalk(Tail(order))

\* the file name as printed
NameOf(f) == <<f.name.stem, f.name.suffix>>

\* lines 259-282: what the walk prints for one file; a decoder that raised is
\* caught at line 277 and the rest of the file's scan is skipped
AfterDecoding(f, d) ==
    d.lines \o (IF d.raised THEN <<Line("Error reading", 0, NameOf(f))>>
                ELSE extract_coordinates(f.text))

LinesOfFile(f) ==
    <<Line("Found file", 0, NameOf(f))>> \o
    (IF IsTxt(f)
     THEN <<Line("Content preview", 0, Slice(f.text, 0, 200))>>
          \o (IF HintSection(f.text) # <<>> THEN <<Line("Hint extracted and stored", 0, <<>>)>>
              ELSE <<>>)
          \o AfterDecoding(f, decode_base64_hints(f.text))
     ELSE IF IsZip(f) THEN <<Line("Found nested ZIP", 0, NameOf(f))>>
     ELSE <<>>)

\* lines 255-284: what process_extracted_content prints for this order of the files
RECURSIVE LinesOfWalk(_)
LinesOfWalk(order) ==
    IF order = <<>> THEN <<>>
    ELSE LinesOfFile(Head(order)) \o (IF IsZip(Head(order)) THEN <<>> ELSE LinesOfWalk(Tail(order)))

\* lines 280-284: what process_extracted_content returns: the first .zip file
\* of the walk (as a one-element sequence), or None (the empty sequence)
RECURSIVE ReturnOfWalk(_)
ReturnOfWalk(order) ==
    IF order = <<>> THEN <<>>
    ELSE IF IsZip(Head(order)) THEN <<Head(order).name>>
    ELSE ReturnOfWalk(Tail(order))

----------------------------------------------------------------------------
\* iteration2.py: try_passwords

\* the candidates parameter: the caller's list, or the list of the layer's strategy
candidates == IF caller = "direct" THEN given ELSE IntelligentCandidates(layer_num, hint_text)

\* lines 223-226: the call, up to opening the archive
EnterTryPasswords(zip_path, cands, from, out) ==
    /\ caller' = from
    /\ tp_i' = 0
    /\ tp_try' = NoTry
    /\ IF PathExists(zip_path) /\ OpenZip(zip_path).valid
       THEN /\ zip_ref' = OpenZip(zip_path)
            /\ tp_ret' = NotReturned
            /\ pc' = "try"
            /\ stdout' = out \o <<Line("Trying candidates", Len(cands), <<>>)>>
       ELSE /\ zip_ref' = NotAnArchive
            /\ tp_ret' = ReturnNone
            /\ pc' = IF from = "direct" THEN "idle" ELSE "cracked"
            /\ stdout' = out \o <<Line("Trying candidates", Len(cands), <<>>),
                                  Line("Error", 0, <<>>)>>

\* a direct call of try_passwords(zip_path, candidates)
TryPasswords(zip_path, cands) ==
    /\ script = "try_passwords"
    /\ pc = "idle"
    /\ calls < MaxCalls
    /\ calls' = calls + 1
    /\ given' = cands
    /\ layer_num' = 0
    /\ EnterTryPasswords(zip_path, cands, "direct", <<>>)
    /\ UNCHANGED <<world, scan, basic, cracker, temp_extract, traversal>>

\* (mutant) one directory for every layer
ExtractDirShared(count) == 0

\* line 230: Path(f"temp_extract_{self.layer_count}")
ExtractDir(count) == count

\* lines 227-244 and 249-251: one candidate
TryPasswordsStep ==
    /\ pc = "try"
    /\ tp_i < Len(candidates)
    /\ LET i == tp_i + 1
           password == NextPassword(candidates, tp_i)
           extract_dir == ExtractDir(layer_count)
           r == ExtractAll(zip_ref, password)
           dir == WriteFiles(temp_extract[extract_dir], r.written)
       IN /\ tp_i' = i
          /\ temp_extract' = [temp_extract EXCEPT ![extract_dir] = dir]
          /\ tp_try' = [password |-> password, outcome |-> r.outcome]
          /\ session_start' = IF caller = "traversal"
                               THEN [session_start EXCEPT
                                        !.dirs = IF tp_i = 0 THEN Append(@, extract_dir) ELSE @,
                                        !.tried = @ + 1]
                               ELSE session_start
          /\ IF r.outcome = "ok"
             THEN /\ \E order \in Enumerations(dir) :
                        /\ extracted_hints' = extracted_hints \o HintsOfWalk(order)
                        /\ stdout' = stdout \o <<Line("SUCCESS", i, password),
                                                  Line("Processing extracted content", extract_dir, <<>>)>>
                                             \o LinesOfWalk(order)
                  /\ tp_ret' = ReturnPassword(password, extract_dir)
                  /\ pc' = IF caller = "direct" THEN "idle" ELSE "cracked"
             ELSE IF Continues(r.outcome)
             THEN /\ stdout' = IF i % Progress = 0
                                THEN stdout \o <<Line("Tried", i, <<>>)>>
                                ELSE stdout
                  /\ UNCHANGED <<extracted_hints, tp_ret, pc>>
             ELSE /\ stdout' = stdout \o <<Line("Error", 0, <<>>)>>
                  /\ tp_ret' = ReturnNone
                  /\ pc' = IF caller = "direct" THEN "idle" ELSE "cracked"
                  /\ UNCHANGED extracted_hints
    /\ UNCHANGED <<world, scan, calls, basic, layer_count, password_history, current_zip, layer,
                   hint_text, caller, zip_ref, given, layer_num>>

\* (mutant) the used-up list is started again
TryPasswordsRestarts ==
    /\ pc = "try"
    /\ tp_i = Len(candidates)
    /\ tp_i' = 0
    /\ UNCHANGED <<world, scan, calls, stdout, basic, cracker, temp_extract, pc, traversal,
                   caller, zip_ref, given, layer_num, tp_ret, tp_try>>

\* lines 246-247: the list is used up
TryPasswordsExhausted ==
    /\ pc = "try"
    /\ tp_i = Len(candidates)
    /\ stdout' = stdout \o <<Line("Failed to crack with", Len(candidates), <<>>)>>
    /\ tp_ret' = ReturnNone
    /\ pc' = IF caller = "direct" THEN "idle" ELSE "cracked"
    /\ UNCHANGED <<world, scan, calls, basic, cracker, temp_extract, traversal,
                   caller, zip_ref, given, layer_num, tp_i, tp_try>>

----------------------------------------------------------------------------
\* iteration2.py: crack_multi_layer_zip

\* lines 288-293
CrackMultiLayerZip(zip_path) ==
    /\ script = "iteration2"
    /\ pc = "idle"
    /\ calls < MaxCalls
    /\ calls' = calls + 1
    /\ current_zip' = zip_path
    /\ layer' = 1
    /\ stdout' = <<Line("MULTI-LAYER ZIP CRACKING CHALLENGE", 0, <<>>)>>
    /\ pc' = "while"
    /\ session_start' = [history |-> Len(password_history), hints |-> Len(extracted_hints),
                          layer_count |-> layer_count, dirs |-> <<>>, tried |-> 0]
    /\ UNCHANGED <<world, scan, basic, cracker, temp_extract, hint_text, unlocker>>

\* line 295 false: the loop ends
WhileExit ==
    /\ pc = "while"
    /\ ~PathExists(current_zip)
    /\ pc' = "summary"
    /\ UNCHANGED <<world, scan, calls, stdout, basic, cracker, temp_extract, traversal, unlocker>>

\* lines 295-305, 150-170: the layer's hint and strategy, and the unlock call
CrackLayer ==
    /\ pc = "while"
    /\ PathExists(current_zip)
    /\ LET hint == IF extracted_hints # <<>> THEN extracted_hints[Len(extracted_hints)] ELSE <<>>
       IN /\ hint_text' = hint
          /\ layer_num' = layer
          /\ given' = <<>>
          /\ EnterTryPasswords(current_zip, IntelligentCandidates(layer, hint), "traversal",
                 stdout \o <<Line("LAYER CHALLENGE", layer, <<>>),
                             Line("Cracking Layer", layer, <<>>)>>
                        \o (IF hint # <<>>
                            THEN <<Line("Available hint", 0, Slice(hint, 0, 100))>>
                                 \o decode_base64_hints(hint).lines \o extract_coordinates(hint)
                            ELSE <<>>))
    /\ UNCHANGED <<world, scan, calls, basic, cracker, temp_extract, current_zip, layer, session_start>>

\* (mutant) the failed layer is tried again instead of leaving the loop
LayerFailedRetries ==
    /\ pc = "cracked"
    /\ tp_ret.password = <<>>
    /\ stdout' = stdout \o <<Line("Failed to crack Layer", layer, <<>>)>>
    /\ pc' = "while"
    /\ UNCHANGED <<world, scan, calls, basic, cracker, temp_extract, traversal, unlocker>>

\* lines 307-309: the unlock failed
LayerFailed ==
    /\ pc = "cracked"
    /\ tp_ret.password = <<>>
    /\ stdout' = stdout \o <<Line("Failed to crack Layer", layer, <<>>)>>
    /\ pc' = "summary"
    /\ UNCHANGED <<world, scan, calls, basic, cracker, temp_extract, traversal, unlocker>>

\* (mutant) the record of the layer replaces the list
RecordedAlone(history, l, password) == <<<<l, password>>>>

\* (mutant) the record is numbered by the count of nested archives found
RecordedByCount(history, l, password) == Append(history, <<layer_count, password>>)

\* line 311: self.password_history.append((layer, password))
Recorded(history, l, password) == Append(history, <<l, password>>)

\* lines 311-325: the layer is recorded and a nested archive found
NextLayer ==
    /\ pc = "cracked"
    /\ tp_ret.password # <<>>
    /\ \E next_zip \in {f \in temp_extract[tp_ret.extract_dir] : IsZip(f)} :
          /\ password_history' = Recorded(password_history, layer, tp_ret.password)
          /\ current_zip' = [dir |-> tp_ret.extract_dir, name |-> next_zip.name]
          /\ layer' = layer + 1
          /\ layer_count' = layer_count + 1
          /\ stdout' = stdout \o <<Line("Found next layer", 0, <<>>)>>
          /\ pc' = "while"
    /\ UNCHANGED <<world, scan, calls, basic, extracted_hints, temp_extract, hint_text, session_start,
                   unlocker>>

\* lines 311-319, 326-328: the layer is recorded and no nested archive found
FinalLayer ==
    /\ pc = "cracked"
    /\ tp_ret.password # <<>>
    /\ {f \in temp_extract[tp_ret.extract_dir] : IsZip(f)} = {}
    /\ password_history' = Recorded(password_history, layer, tp_ret.password)
    /\ stdout' = stdout \o <<Line("Final layer reached! Challenge completed!", 0, <<>>)>>
    /\ pc' = "summary"
    /\ UNCHANGED <<world, scan, calls, basic, layer_count, extracted_hints, temp_extract,
                   traversal, unlocker>>

\* lines 330-341
HistoryLines == [k \in 1..Len(password_history) |->
                    Line("Layer", password_history[k][1], password_history[k][2])]

Summary ==
    /\ pc = "summary"
    /\ stdout' = stdout \o <<Line("CHALLENGE SUMMARY", 0, <<>>),
                             Line("Layers cracked", Len(password_history), <<>>),
                             Line("Hints collected", Len(extracted_hints), <<>>),
                             Line("Password History", 0, <<>>)>> \o HistoryLines
    /\ pc' = "idle"
    /\ UNCHANGED <<world, scan, calls, basic, cracker, temp_extract, traversal, unlocker>>

----------------------------------------------------------------------------
\* iteration2.py: the hint extractors, called on their own

\* lines 253-284: process_extracted_content(extract_dir)
ProcessExtractedContent(extract_dir) ==
    /\ script = "process_extracted_content"
    /\ calls < MaxCalls
    /\ calls' = calls + 1
    /\ \E order \in Enumerations(temp_extract[extract_dir]) :
          /\ extracted_hints' = extracted_hints \o HintsOfWalk(order)
          /\ stdout' = <<Line("Processing extracted content", extract_dir, <<>>)>>
                        \o LinesOfWalk(order)
          /\ scan' = [fn |-> "process_extracted_content", text |-> <<>>, raised |-> FALSE,
                      ret |-> ReturnOfWalk(order)]
    /\ UNCHANGED <<world, basic, layer_count, password_history, temp_extract, pc,
                   traversal, unlocker>>

\* lines 115-131: decode_base64_hints(text)
DecodeBase64Hints(text) ==
    /\ script = "process_extracted_content"
    /\ calls < MaxCalls
    /\ calls' = calls + 1
    /\ \E r \in {decode_base64_hints(text)} :
          /\ stdout' = r.lines
          /\ scan' = [fn |-> "decode_base64_hints", text |-> text, raised |-> r.raised,
                      ret |-> <<>>]
    /\ UNCHANGED <<world, basic, multi>>

\* lines 133-148: extract_coordinates(text)
ExtractCoordinates(text) ==
    /\ script = "process_extracted_content"
    /\ calls < MaxCalls
    /\ calls' = calls + 1
    /\ stdout' = extract_coordinates(text)
    /\ scan' = [fn |-> "extract_coordinates", text |-> text, raised |-> FALSE, ret |-> <<>>]
    /\ UNCHANGED <<world, basic, multi>>

----------------------------------------------------------------------------
Init ==
    /\ \/ script = "iteration1" /\ zip_file \in ArchivesAt(1, 1)
       \/ script = "brute_force_numeric" /\ zip_file \in ArchivesAt(1, 1) \cup NumericArchives
       \/ script = "pattern_based_attack" /\ zip_file \in ArchivesAt(1, 1) \cup PatternArchives
       \/ script = "try_passwords" /\ zip_file \in ArchivesAt(1, 1) \cup NestedSamples
       \/ script = "iteration2" /\ zip_file \in ArchivesAt(1, MaxDepth) \cup Challenges \cup {TwoArchives}
       \/ script = "process_extracted_content" /\ zip_file = NotAnArchive
    /\ calls = 0
    /\ stdout = <<>>
    /\ attempts = 0
    /\ start_time = 0
    /\ cwd = {}
    /\ da_pc = "idle"
    /\ da_arg = NoWordlist
    /\ wordlist = <<>>
    /\ da_i = 0
    /\ da_ret = NotReturned
    /\ da_try = NoTry
    /\ pattern_call = NoPattern
    /\ bf_pc = "idle"
    /\ max_length = 0
    /\ length = 0
    /\ bf_combo = 0
    /\ bf_ret = NotReturned
    /\ bf_try = NoTry
    /\ layer_count = 0
    /\ extracted_hints = <<>>
    /\ password_history = <<>>
    /\ IF script = "process_extracted_content"
       THEN \E dir \in ScanDirs : temp_extract = [d \in 0..MaxDir |-> IF d = 0 THEN dir ELSE {}]
       ELSE temp_extract = [d \in 0..MaxDir |-> {}]
    /\ pc = "idle"
    /\ current_zip = RootPath
    /\ layer = 0
    /\ hint_text = <<>>
    /\ session_start = [history |-> 0, hints |-> 0, layer_count |-> 0, dirs |-> <<>>, tried |-> 0]
    /\ caller = "direct"
    /\ zip_ref = NotAnArchive
    /\ given = <<>>
    /\ layer_num = 0
    /\ tp_i = 0
    /\ tp_ret = NotReturned
    /\ tp_try = NoTry
    /\ scan = NoScan

Next ==
    \/ \E p \in Paths, wl \in WordlistArgs : DictionaryAttack(p, wl)
    \/ DictionaryAttackStep
    \/ DictionaryAttackExhausted
    \/ \E p \in Paths, w \in BaseWords, v \in BOOLEAN : PatternBasedAttack(p, w, v)
    \/ \E p \in Paths, n \in 0..MaxDigits : BruteForceNumeric(p, n)
    \/ BruteForceNextLength
    \/ BruteForceStep
    \/ BruteForceExhausted
    \/ \E p \in Paths, cands \in CandidateLists : TryPasswords(p, cands)
    \/ TryPasswordsStep
    \/ TryPasswordsExhausted
    \/ \E p \in Paths : CrackMultiLayerZip(p)
    \/ WhileExit
    \/ CrackLayer
    \/ LayerFailed
    \/ NextLayer
    \/ FinalLayer
    \/ Summary
    \/ \E d \in 0..1 : ProcessExtractedContent(d)
    \/ \E text \in ScanTexts : DecodeBase64Hints(text)
    \/ \E text \in ScanTexts : ExtractCoordinates(text)

Spec == Init /\ [][Next]_vars

\* The steps of a running call of crack_multi_layer_zip or try_passwords.
TraversalStep ==
    \/ TryPasswordsStep
    \/ TryPasswordsExhausted
    \/ WhileExit
    \/ CrackLayer
    \/ LayerFailed
    \/ NextLayer
    \/ FinalLayer
    \/ Summary

PcValues == {"idle", "while", "try", "cracked", "summary"}

\* A running call moves on: its position or the index of its unlock loop
\* changes.  Every step of a running call does that, and no other step does.
Proceeds ==
    /\ pc # "idle"
    /\ pc' \in PcValues
    /\ tp_i' \in 0..(tp_i + 1)
    /\ <<pc', tp_i'>> # <<pc, tp_i>>

\* The interpreter runs the statements of a call one after the other until it
\* returns: a call that has started keeps moving.  Whether another call is
\* made is up to the caller, so there is no fairness on the calls themselves.
FairSpec == Spec /\ WF_<<pc, tp_i>>(Proceeds)

----------------------------------------------------------------------------
\* Properties.

Accepts(arch, pwd) == ExtractAll(arch, pwd).outcome = "ok"

Printed(msg) == \E k \in 1..Len(stdout) : stdout[k].msg = msg

PrintedN(msg, n) == \E k \in 1..Len(stdout) : stdout[k].msg = msg /\ stdout[k].n = n

Count(msg) == Cardinality({k \in 1..Len(stdout) : stdout[k].msg = msg})

Complete == "Final layer reached! Challenge completed!"

Failed == "Failed to crack Layer"

FailedTry(t) == t.outcome = "RuntimeError"

\* C1: both unlock loops take the candidates in list order and stop at the
\* first one the archive accepts: the k-th extractall call is made with the
\* k-th candidate, the loop goes on only after a rejection, and as soon as a
\* candidate is accepted the call has returned it, with the attempt count equal
\* to its 1-based position, every earlier candidate rejected, and no later
\* candidate taken.
C1_StopsAtFirstAccepted ==
    /\ da_try # NoTry =>
          /\ da_i >= 1 /\ da_i <= Len(wordlist)
          /\ da_try.password = wordlist[da_i]
          /\ da_pc = "loop" => ~Accepts(zip_file, wordlist[da_i])
          /\ Accepts(zip_file, wordlist[da_i]) =>
                /\ da_pc = "idle"
                /\ da_ret = ReturnPassword(wordlist[da_i], -1)
                /\ attempts = da_i
                /\ \A j \in 1..(da_i - 1) : ~Accepts(zip_file, wordlist[j])
    /\ da_ret.kind = "password" => da_try # NoTry /\ Accepts(zip_file, wordlist[da_i])
    /\ tp_try # NoTry =>
          /\ tp_i >= 1 /\ tp_i <= Len(candidates)
          /\ tp_try.password = candidates[tp_i]
          /\ pc = "try" => ~Accepts(zip_ref, candidates[tp_i])
          /\ Accepts(zip_ref, candidates[tp_i]) =>
                /\ pc # "try"
                /\ tp_ret.kind = "password"
                /\ tp_ret.password = candidates[tp_i]
                /\ \A j \in 1..(tp_i - 1) : ~Accepts(zip_ref, candidates[j])
    /\ tp_ret.kind = "password" => tp_try # NoTry /\ Accepts(zip_ref, candidates[tp_i])

\* [wrong1, wrong2, correct, wrong3] against the password 'correct': found after 3 attempts
C1_Witness ==
    /\ script = "try_passwords"
    /\ given = ExampleList
    /\ tp_ret.kind = "password"
    /\ tp_ret.password = pw_correct
    /\ tp_i = 3

\* C2: called with an empty candidate list, the unlocker makes no extraction
\* attempt and returns not-found with 0 attempts, for dictionary_attack
\* (wordlist=[]) as for try_passwords (candidates=[]).
C2_EmptyListFailsAtOnce ==
    /\ (script = "iteration1" /\ da_arg.given /\ da_arg.list = <<>>) =>
          /\ da_try = NoTry
          /\ da_ret.kind \in {"pending", "None"}
          /\ da_pc = "idle" => da_ret = ReturnNone
    /\ (script = "try_passwords" /\ calls > 0 /\ given = <<>>) =>
          /\ tp_try = NoTry
          /\ tp_ret.kind \in {"pending", "None"}
          /\ tp_i = 0

C4_NoPartialOutput ==
    calls = 1 =>
       /\ FailedTry(tp_try) => temp_extract[layer_count] = {}
       /\ FailedTry(da_try) => cwd = {}

\* The first traversal of a fresh cracker has ended, and it ran on the
\* 3-layer challenge.
TheChallenge == ChallengeLayer1(ChallengeLayer3)

ChallengeHistory == <<<<1, pw_start123>>, <<2, pw_albert1921>>, <<3, pw_parisau49>>>>

TraversalEnded == script = "iteration2" /\ pc = "idle" /\ Printed("CHALLENGE SUMMARY")

ChallengeRun ==
    /\ TraversalEnded
    /\ zip_file = TheChallenge
    /\ calls = 1
    /\ Printed("LAYER CHALLENGE")

\* C5 (as claimed): on the 3-layer challenge a fresh cracker ends Complete
\* with layer_count = 3 and the password history of the three layers.
C5_ChallengeLayerCount3 ==
    ChallengeRun =>
       /\ Printed(Complete)
       /\ layer_count = 3
       /\ password_history = ChallengeHistory

\* C5 (amended): on the 3-layer challenge a fresh cracker ends Complete, never
\* Failed, with 3 layers cracked (the length of the password history, which is
\* the count the summary prints), the password history of the three layers,
\* and layer_count = 2: the field counts the steps into a nested archive.
C5_ChallengeCracked ==
    ChallengeRun =>
       /\ Printed(Complete)
       /\ ~Printed(Failed)
       /\ PrintedN("Layers cracked", 3)
       /\ Len(password_history) = 3
       /\ password_history = ChallengeHistory
       /\ layer_count = 2

C5_Witness == ChallengeRun /\ Printed(Complete)

\* C6: once the unlock of layer k has failed, the traversal is over: it goes
\* to the summary and stops, every layer 1..k was given exactly one unlock call
\* (none after the failure, none again for an earlier layer), and the password
\* history holds, after the entries it had when the traversal was called,
\* exactly the entries of the layers 1..k-1.
C6_FailureIsFatal ==
    (script = "iteration2" /\ Printed(Failed)) =>
       /\ pc \in {"summary", "idle"}
       /\ PrintedN(Failed, layer)
       /\ tp_ret.kind = "None"
       /\ Count("Cracking Layer") = layer
       /\ \A l \in 1..layer : PrintedN("Cracking Layer", l)
       /\ Len(password_history) = session_start.history + layer - 1
       /\ \A l \in 1..(layer - 1) : password_history[session_start.history + l][1] = l

\* the third layer failed after two layers were unlocked
C6_Witness ==
    /\ script = "iteration2"
    /\ pc = "idle"
    /\ PrintedN(Failed, 3)
    /\ Len(password_history) = session_start.history + 2

\* C7: when the last layer unlocked holds no archive, the traversal ends
\* Complete, not Failed, and the number of layers cracked it reports is the
\* number of layers unlocked in this traversal.
C7_CompleteReportsOwnLayers ==
    (/\ TraversalEnded
     /\ Printed("LAYER CHALLENGE")
     /\ tp_ret.kind = "password"
     /\ \A k \in 1..Len(zip_ref.entries) : zip_ref.entries[k].name.suffix # ".zip") =>
       /\ Printed(Complete)
       /\ ~Printed(Failed)
       /\ PrintedN("Layers cracked", Count("SUCCESS"))

\* C8: the output of every traversal that has ended states the layer count
\* and whether it ended Complete or Failed, and for Failed the failing layer
\* and the reason.
C8_SummaryStatesOutcome ==
    TraversalEnded =>
       /\ Printed("Layers cracked")
       /\ Printed(Complete) # Printed(Failed)
       /\ Printed(Failed) =>
             /\ PrintedN(Failed, layer)
             /\ Printed("Error") \/ Printed("Failed to crack with")

\* C9: the value the unlocker returns after a malformed archive or an I/O
\* error differs from the value it returns after the candidates are used up.
ExhaustedReturn == ReturnNone

C9_ErrorReturnDiffers ==
    /\ (tp_ret.kind # "pending" /\ Printed("Error")) => tp_ret # ExhaustedReturn
    /\ (da_ret.kind # "pending" /\ Printed("Not a valid ZIP file")) => da_ret # ExhaustedReturn

\* C10: when every candidate of the list (the list passed, or the default
\* list when none is passed) is rejected as a wrong password, the unlocker
\* raises nothing, and it returns not-found after exactly len(candidates)
\* attempts, the last of them made with the last candidate.
AllRejected(arch, list) ==
    \A j \in 1..Len(list) : ExtractAll(arch, list[j]).outcome = "RuntimeError"

C10_AllRejected ==
    /\ (/\ da_ret.kind \notin {"pending", "None"}
        /\ Printed("ZIP file loaded")) => ~AllRejected(zip_file, wordlist)
    /\ (/\ script = "iteration1"
        /\ da_ret.kind = "None"
        /\ Printed("ZIP file loaded")
        /\ ~da_arg.given \/ da_arg.list = wordlist
        /\ AllRejected(zip_file, wordlist)) =>
          /\ attempts = Len(wordlist)
          /\ da_i = Len(wordlist)
          /\ da_try = [password |-> wordlist[da_i], outcome |-> "RuntimeError"]
    /\ (/\ tp_ret.kind \notin {"pending", "None"}
        /\ zip_ref.valid) => ~AllRejected(zip_ref, candidates)
    /\ (/\ tp_ret.kind = "None"
        /\ zip_ref.valid
        /\ AllRejected(zip_ref, candidates)) =>
          /\ tp_i = Len(candidates)
          /\ candidates # <<>> =>
                tp_try = [password |-> candidates[tp_i], outcome |-> "RuntimeError"]

\* a list with a duplicate, every element rejected: two attempts, not found
C10_Witness ==
    /\ script = "iteration1"
    /\ da_arg = [given |-> TRUE, list |-> <<pw_wrong1, pw_wrong1>>]
    /\ da_pc = "idle"
    /\ da_ret = ReturnNone
    /\ attempts = 2
    /\ da_try.outcome = "RuntimeError"

\* The hint texts a layer can be given: none, and the sections the model's
\* texts hold.
HintTexts == {<<>>} \cup {HintSection(t)[1] : t \in {TextWithHint}} \cup {HINT}

\* C11: the candidates of a layer are the layer's default sequence when there
\* is no hint, and depend on the hint when there is one: some other hint text
\* makes intelligent_crack_layer try a different sequence at the same layer.
C11_HintInfluencesCandidates ==
    (pc = "try" /\ caller = "traversal") =>
       /\ hint_text = <<>> => candidates = LayerCandidates(layer_num)
       /\ hint_text # <<>> =>
             \E h \in HintTexts :
                IntelligentCandidates(layer_num, h) # IntelligentCandidates(layer_num, hint_text)

\* C12: after the first layer of a fresh cracker is unlocked, the hint section
\* of every extracted .txt file is in the accumulated hint list, whatever the
\* order of the directory walk.
C12_EveryTextScanned ==
    (calls = 1 /\ tp_try.outcome = "ok" /\ tp_ret.extract_dir = 0) =>
       \A f \in temp_extract[0] :
          (IsTxt(f) /\ HintSection(f.text) # <<>>) =>
             \E k \in 1..Len(extracted_hints) : extracted_hints[k] = HintSection(f.text)[1]

\* The file names of the model in lexicographic order.
SortedStems == <<"alpha", "beta", "broken", "deeper", "hint2", "next_challenge", "readme",
                 "secret", "unread", "victory", "welcome">>

StemRank(stem) == CHOOSE k \in 1..Len(SortedStems) : SortedStems[k] = stem

FirstByName(files) ==
    CHOOSE f \in files : \A g \in files : StemRank(f.name.stem) <= StemRank(g.name.stem)

\* C13: the archive a traversal goes on with is the first by file name of the
\* archives the layer before it held.
C13_NextLayerFirstByName ==
    (script = "iteration2" /\ current_zip.dir # -1) =>
       current_zip.name = FirstByName({f \in temp_extract[current_zip.dir] : IsZip(f)}).name

\* The place of a digit string in the order "shorter first, and ascending
\* among strings of a length": the strings shorter than it, and its value.
RECURSIVE ShorterStrings(_)
ShorterStrings(n) == IF n <= 1 THEN 0 ELSE Pow10(n - 1) + ShorterStrings(n - 1)

NumericIndex(s) == ShorterStrings(Len(s)) + Value(s) + 1

\* the archive has one entry, encrypted with a digit string the call reaches
NumericTarget ==
    /\ zip_file.valid
    /\ Len(zip_file.entries) = 1
    /\ zip_file.entries[1].enc
    /\ zip_file.entries[1].fault = "none"
    /\ zip_file.entries[1].pwd # <<>>
    /\ \A k \in 1..Len(zip_file.entries[1].pwd) : IsDigit(zip_file.entries[1].pwd[k])
    /\ Len(zip_file.entries[1].pwd) <= max_length

\* C14: the i-th attempt of brute_force_numeric is made with the i-th digit
\* string in ascending length and ascending order within a length, never the
\* empty string and never one longer than max_length; when the loops are used
\* up every string of 1..max_length digits was tried (110 of them for
\* max_length = 2); and a password that is the i-th string is returned after
\* exactly i attempts.
C14_NumericOrder ==
    /\ bf_try # NoTry =>
          /\ bf_try.password # <<>>
          /\ Len(bf_try.password) <= max_length
          /\ \A k \in 1..Len(bf_try.password) : IsDigit(bf_try.password[k])
          /\ attempts = NumericIndex(bf_try.password)
    /\ (bf_pc = "idle" /\ bf_ret.kind = "None" /\ Printed("Brute force failed")) =>
          /\ attempts = ShorterStrings(max_length + 1)
          /\ max_length = 2 => attempts = 110
    /\ bf_ret.kind = "password" =>
          /\ bf_ret.password = bf_try.password
          /\ Accepts(zip_file, bf_ret.password)
    /\ (bf_pc = "idle" /\ bf_ret.kind # "pending" /\ ~Printed("File not found") /\ NumericTarget) =>
          /\ bf_ret = ReturnPassword(zip_file.entries[1].pwd, -1)
          /\ attempts = NumericIndex(zip_file.entries[1].pwd)

\* max_length = 2, password '42': found at attempt 10 + 42 + 1
C14_Witness ==
    /\ max_length = 2
    /\ bf_ret = ReturnPassword(<<"4", "2">>, -1)
    /\ attempts = 53

\* the string w with every c replaced by r
Leet(w, c, r) == [k \in 1..Len(w) |-> IF w[k] = c THEN r ELSE w[k]]

InList(list, p) == \E k \in 1..Len(list) : list[k] = p

\* C15: the list pattern_based_attack builds with variations on starts with
\* the base word w and contains w upper-cased, lower-cased and capitalized,
\* w+'1', w+'123', w reversed, and for each of a, o, e, i present in w the
\* substitution a->@, o->0, e->3, i->1; and it is the list dictionary_attack
\* iterates.
C15_PatternVariations ==
    (pattern_call.called /\ pattern_call.variations) =>
       LET w == pattern_call.base_word
           list == pattern_call.patterns
       IN /\ list[1] = w
          /\ InList(list, Upper(w))
          /\ InList(list, Lower(w))
          /\ InList(list, Capitalize(w))
          /\ InList(list, w \o <<"1">>)
          /\ InList(list, w \o <<"1", "2", "3">>)
          /\ \E p \in {list[k] : k \in 1..Len(list)} :
                /\ Len(p) = Len(w)
                /\ \A k \in 1..Len(w) : p[k] = w[Len(w) + 1 - k]
          /\ \A sub \in {<<"a", "@">>, <<"o", "0">>, <<"e", "3">>, <<"i", "1">>} :
                InList(w, sub[1]) => InList(list, Leet(w, sub[1], sub[2]))
          /\ Printed("ZIP file loaded") => wordlist = list

\* base word 'admin', password 'nimda': found with the last pattern
C15_Witness ==
    /\ pattern_call.called
    /\ pattern_call.variations
    /\ pattern_call.base_word = <<"a", "d", "m", "i", "n">>
    /\ da_ret = ReturnPassword(<<"n", "i", "m", "d", "a">>, -1)
    /\ attempts = 16

\* C16: the candidate list intelligent_crack_layer hands to the unlocker has at
\* most 10,000 elements at every layer index, exactly 750 from the third layer
\* on, and the unlocker never makes more attempts on a layer than the list has
\* elements.
C16_CandidateCap ==
    (caller = "traversal" /\ layer_num >= 1) =>
       /\ Len(candidates) <= 10000
       /\ layer_num >= 3 => Len(candidates) = 750
       /\ tp_i <= Len(candidates)
       /\ (pc = "try" /\ tp_i = 0) =>
             \A n \in 1..(MaxDepth + 3) :
                /\ Len(IntelligentCandidates(n, hint_text)) <= 10000
                /\ n >= 3 => Len(IntelligentCandidates(n, hint_text)) = 750

\* the third layer rejected all of its 750 candidates
C16_Witness ==
    /\ caller = "traversal"
    /\ layer_num = 3
    /\ tp_i = 750
    /\ tp_ret = ReturnNone
    /\ Printed("Failed to crack with")

\* The marker at the start of a stored section, in any case.
StartsAtMarker(section) == Upper(Slice(section, 0, Len(HINT))) = HINT

\* C17: every hint section stored in extracted_hints starts at an occurrence
\* of the marker 'HINT' (in any case) of the scanned text and is at most 500
\* characters long.
C17_SectionsStartAtMarker ==
    \A k \in 1..Len(extracted_hints) :
       /\ Len(extracted_hints[k]) <= HintMax
       /\ StartsAtMarker(extracted_hints[k])

\* The occurrences of the marker in a text, in any case.
Occurrences(text) == Cardinality({k \in 0..Len(text) : Occurs(Lower(HINT), Lower(text), k)})

\* the first call of process_extracted_content was made on directory d
FirstScanOf(d) ==
    /\ scan.fn = "process_extracted_content"
    /\ calls = 1
    /\ stdout[1] = Line("Processing extracted content", d, <<>>)

\* C18: a text with n occurrences of the marker 'HINT' (in any case)
\* contributes n hint sections: after the scan of a directory that holds one
\* text file, extracted_hints has one section for each occurrence.
C18_OneSectionPerOccurrence ==
    FirstScanOf(0) =>
       \A f \in temp_extract[0] :
          (temp_extract[0] = {f} /\ IsTxt(f)) => Len(extracted_hints) = Occurrences(f.text)

\* A token that decodes to text.
IsValidToken(match) == DecodeOne(match).exc = "none"

\* the two lines decode_base64_hints prints for a valid token
TokenLines(match) ==
    <<Line("Found encoded message", 0, match), Line("Decoded", 0, DecodeOne(match).text)>>

\* the lines of the valid tokens of a text, in the order of the text
ValidTokenLines(text) ==
    LET valid == SelectSeq(Base64Matches(text, 1), IsValidToken)
    IN Concat([k \in 1..Len(valid) |-> TokenLines(valid[k])])

LayerPayload == <<"l", "o", "o", "k", " ", "a", "t", " ", "l", "a", "y", "e", "r", " ", "3">>

\* C19: decode_base64_hints never raises; a matched token that fails to
\* decode (bad base64 padding, or bytes that are no UTF-8 text) is skipped, and
\* every later token is still processed and, when valid, decoded: the call
\* prints the lines of exactly the valid tokens, and the scan of a file never
\* ends in the error handler because of a token.
C19_DecodeNeverRaises ==
    /\ ~Printed("Error reading")
    /\ scan.fn = "decode_base64_hints" =>
          /\ ~scan.raised
          /\ stdout = <<Line("Decoding Hidden Messages", 0, <<>>)>> \o ValidTokenLines(scan.text)
          /\ scan.text = NotTextThenKey =>
                /\ ~IsValidToken(NotTextToken)
                /\ stdout[Len(stdout)] = Line("Decoded", 0, KeyPayload)
          /\ scan.text = BadPaddingThenLayer =>
                /\ ~IsValidToken(BadPaddingToken)
                /\ stdout[Len(stdout)] = Line("Decoded", 0, LayerPayload)

\* a token that is no UTF-8 text was skipped and the token after it decoded
C19_Witness ==
    /\ scan.fn = "decode_base64_hints"
    /\ scan.text = NotTextThenKey
    /\ ~scan.raised
    /\ Len(stdout) = 3
    /\ stdout[2] = Line("Found encoded message", 0, KeyToken)
    /\ stdout[3] = Line("Decoded", 0, KeyPayload)

\* A hint extractor is run again on the input of its previous run: the same
\* text, or the same directory (of one file, so that the walk is the same).
SecondRun ==
    /\ scan.fn # "none"
    /\ calls' = calls + 1
    /\ scan'.fn = scan.fn
    /\ scan'.text = scan.text
    /\ scan.fn = "process_extracted_content" =>
          /\ stdout'[1] = stdout[1]
          /\ Cardinality(temp_extract[stdout[1].n]) = 1

\* C20: hint extraction is idempotent and free of hidden state: the second
\* run of a hint extractor on the same input prints what the first run printed
\* and leaves the cracker's state, the accumulated hint list included, as the
\* first run left it.
C20_HintExtractionIdempotent ==
    [][SecondRun => (stdout' = stdout /\ cracker' = cracker)]_vars

\* decode_base64_hints and extract_coordinates alone: a second run on the same
\* text prints the same lines and changes nothing of the cracker.
DecodersIdempotent ==
    [][(SecondRun /\ scan.fn # "process_extracted_content")
          => (stdout' = stdout /\ cracker' = cracker)]_vars

\* a is a prefix of b
IsPrefix(a, b) == Len(a) <= Len(b) /\ SubSeq(b, 1, Len(a)) = a

\* C21: the accumulated hint list and the password history are append-only:
\* in every step the list before the step is a prefix of the list after it.
C21_ListsAppendOnly ==
    [][/\ IsPrefix(extracted_hints, extracted_hints')
       /\ IsPrefix(password_history, password_history')]_vars

\* a traversal in which both lists grew twice
C21_Witness ==
    /\ script = "iteration2"
    /\ calls = 1
    /\ pc = "idle"
    /\ Len(password_history) = 2
    /\ Len(extracted_hints) = 2

\* C22: the unlock operation never modifies the accumulated hint list or the
\* password history: across every step of a call of try_passwords, successful
\* or not, both lists are unchanged.
C22_UnlockLeavesLists ==
    [][pc = "try" => UNCHANGED <<extracted_hints, password_history>>]_vars

\* C23: within one traversal two different layers never extract into the
\* same directory: the directories the layers of the traversal have used so
\* far are pairwise different.
C23_DirectoryPerLayer ==
    /\ Len(session_start.dirs) <= layer
    /\ \A i, j \in 1..Len(session_start.dirs) :
          i # j => session_start.dirs[i] # session_start.dirs[j]

\* the second layer of a second traversal has extracted into its directory
C23_Witness ==
    /\ script = "iteration2"
    /\ calls = 2
    /\ layer = 2
    /\ Len(session_start.dirs) = 2
    /\ tp_ret.kind = "password"

\* The payloads decode_base64_hints decodes from a text.
Payloads(text) ==
    LET valid == SelectSeq(Base64Matches(text, 1), IsValidToken)
    IN {DecodeOne(valid[k]).text : k \in 1..Len(valid)}

\* C24: after the hint scan of a directory, every decoded base64 payload found
\* in its text entries is present in the accumulated hint list (after the
\* scan of a directory that holds one text file, some stored hint holds each
\* payload of the text).
C24_PayloadsStored ==
    FirstScanOf(0) =>
       \A f \in temp_extract[0] :
          (temp_extract[0] = {f} /\ IsTxt(f)) =>
             \A payload \in Payloads(f.text) :
                \E k \in 1..Len(extracted_hints) : Contains(extracted_hints[k], payload)

Unencrypted(arch) ==
    arch.valid /\ \A k \in 1..Len(arch.entries) : ~arch.entries[k].enc

\* C25: on an archive none of whose entries is encrypted every candidate is
\* accepted: no attempt of an unlock loop is rejected, and a call that has
\* returned (dictionary_attack on an existing path, try_passwords with a
\* candidate to try) returned the first candidate of the list it iterates,
\* after exactly 1 attempt; with the default list that candidate is 'password'.
C25_UnencryptedAcceptsFirst ==
    /\ (script = "iteration1" /\ Unencrypted(zip_file)) =>
          /\ da_try # NoTry => da_try.outcome = "ok"
          /\ (da_ret.kind # "pending" /\ ~Printed("File not found")) =>
                /\ da_ret = ReturnPassword(wordlist[1], -1)
                /\ attempts = 1
                /\ da_i = 1
                /\ (~da_arg.given \/ da_arg.list = <<>>) =>
                      da_ret.password = <<"p","a","s","s","w","o","r","d">>
    /\ (zip_ref # NotAnArchive /\ Unencrypted(zip_ref)) =>
          /\ tp_try # NoTry => tp_try.outcome = "ok"
          /\ (pc # "try" /\ tp_ret.kind # "pending" /\ candidates # <<>>) =>
                /\ tp_ret.kind = "password"
                /\ tp_ret.password = candidates[1]
                /\ tp_i = 1

\* dictionary_attack with the default list on an archive written without a
\* password returns 'password' after one attempt
C25_Witness ==
    /\ script = "iteration1"
    /\ Unencrypted(zip_file)
    /\ ~da_arg.given
    /\ da_ret = ReturnPassword(<<"p","a","s","s","w","o","r","d">>, -1)
    /\ attempts = 1

\* C26: in the first traversal of a cracker, at the start of every iteration
\* of the layer loop layer = layer_count + 1 = len(password_history) + 1; the
\* password history is [(1,p1),...,(k-1,p(k-1))] with consecutive layer
\* numbers, and the extraction directory of layer k is temp_extract_(k-1).
C26_CountersAgree ==
    (script = "iteration2" /\ calls = 1) =>
       /\ pc = "while" =>
             /\ layer = layer_count + 1
             /\ layer = Len(password_history) + 1
             /\ \A k \in 1..Len(password_history) : password_history[k][1] = k
             /\ Len(session_start.dirs) = layer - 1
       /\ \A k \in 1..Len(session_start.dirs) : session_start.dirs[k] = k - 1

\* the loop starts its second iteration: layer 1 is recorded, layer_count is 1
C26_Witness ==
    /\ script = "iteration2"
    /\ calls = 1
    /\ pc = "while"
    /\ layer = 2
    /\ layer_count = 1
    /\ Len(password_history) = 1
    /\ session_start.dirs = <<0>>

\* C27: every call of crack_multi_layer_zip is an independent session, also
\* on a cracker already used: layer 1 of the call is attempted with an empty
\* hint, and the layers-cracked count and the password history printed at the
\* end cover only the layers unlocked in this call.
C27_CallsAreIndependent ==
    script = "iteration2" =>
       /\ (pc \in {"try", "cracked"} /\ layer = 1) => hint_text = <<>>
       /\ TraversalEnded =>
             /\ PrintedN("Layers cracked", Len(password_history) - session_start.history)
             /\ Count("Layer") = Len(password_history) - session_start.history

\* the longest chain of .zip files nested in one another, the archive included
RECURSIVE Depth(_)
Depth(arch) ==
    LET depths == {Depth(arch.entries[k].inner[1]) :
                      k \in {j \in 1..Len(arch.entries) : arch.entries[j].inner # <<>>}}
    IN 1 + (IF depths = {} THEN 0 ELSE CHOOSE m \in depths : \A n \in depths : n <= m)

\* the sizes of the candidate lists of the layers tried so far, added up
RECURSIVE ListSizes(_)
ListSizes(k) ==
    IF k = 0 THEN 0
    ELSE ListSizes(k - 1) + (IF stdout[k].msg = "Trying candidates" THEN stdout[k].n ELSE 0)

LoopBounded ==
    script = "iteration2" =>
       /\ Count("LAYER CHALLENGE") <= Depth(zip_file)
       /\ session_start.tried <= ListSizes(Len(stdout))
       /\ pc = "try" => tp_i <= Len(candidates)

\* C28: crack_multi_layer_zip terminates on every archive of finite nesting
\* depth d, whatever the outcomes of the extraction attempts: the layer loop
\* runs at most d times, the extraction attempts number at most the sum of the
\* sizes of the layers' candidate lists, and every call started prints the
\* summary and returns.
C28_TraversalTerminates ==
    /\ []LoopBounded
    /\ [][(pc # "idle" /\ <<pc, tp_i>>' # <<pc, tp_i>>) <=> TraversalStep]_vars
    /\ (script = "iteration2" /\ pc # "idle") ~> TraversalEnded

\* a call that ran the loop twice, with rejected candidates on the way, and
\* printed the summary
C28_Witness ==
    /\ TraversalEnded
    /\ Depth(zip_file) = 2
    /\ Count("LAYER CHALLENGE") = 2
    /\ session_start.tried > 2
    /\ session_start.tried <= ListSizes(Len(stdout))

BasicScripts == {"iteration1", "pattern_based_attack", "brute_force_numeric"}

\* the combinations tried when the inner loop stands at combo of this length
Tried(len, combo) ==
    IF len = 0 THEN 0
    ELSE combo + Cardinality({<<l, k>> \in (1..(len - 1)) \X (0..(Pow10(len) - 1)) : k < Pow10(l)})

CounterIsTried ==
    /\ script \in {"iteration1", "pattern_based_attack"} => attempts = da_i
    /\ script = "brute_force_numeric" => attempts = Tried(length, bf_combo)

AttackReturned == IF script = "brute_force_numeric" THEN bf_ret ELSE da_ret

AttackTry == IF script = "brute_force_numeric" THEN bf_try ELSE da_try

\* C29: a call of dictionary_attack or brute_force_numeric with a path that
\* does not exist returns None without an extraction attempt and leaves
\* attempts and start_time as the previous attack left them; every other call
\* sets the counter to 0 and takes a new start_time, and from then on the
\* counter is the number of candidates tried.
C29_MissingPathLeavesCounters ==
    /\ []CounterIsTried
    /\ [][(script \in BasicScripts /\ calls' = calls + 1) =>
             IF Printed("File not found")'
             THEN /\ UNCHANGED <<attempts, start_time, cwd>>
                  /\ AttackReturned' = ReturnNone
                  /\ AttackTry' = NoTry
             ELSE /\ attempts' = 0
                  /\ start_time' = calls'
                  /\ start_time' # start_time]_vars

\* after an attack that tried candidates, a call on a missing path: the
\* counter and the start time are those of the earlier attack
C29_Witness ==
    /\ script \in BasicScripts
    /\ calls = 2
    /\ Printed("File not found")
    /\ AttackReturned = ReturnNone
    /\ attempts > 1
    /\ start_time = 1

====
